---- MODULE Spec2Model ----
(***************************************************************************)
(* The ephemeral test database harness of sqlx (`#[sqlx::test]`):          *)
(*   sqlx-core/src/postgres/testing/mod.rs  master pool registry,          *)
(*                                          provisioner, reaper, cleanup   *)
(*   sqlx-core/src/testing/mod.rs           run_test and the entry shapes  *)
(*   sqlx-macros/src/test.rs                the attribute's arguments      *)
(*                                                                         *)
(* Several test processes, each running several tests on its own threads,  *)
(* and one operator running cleanup_test_dbs share one master database.    *)
(* Every `.await` on a database round trip is a point where the others may *)
(* run, so every round trip is one action.                                 *)
(***************************************************************************)
EXTENDS Integers, Sequences, FiniteSets, TLC

(* ------------------------------ bounds -------------------------------- *)
\* Tests (threads) over all processes.
NTests == 2
\* The clock stops here (in ticks).
MaxTime == 2
\* Longest fixture list a test declares.
MaxFixtures == 2
\* Runs of the operator cleanup.
MaxOpRuns == 1
\* Most arguments an attribute #[sqlx::test(...)] carries.
MaxArgs == 2

(* ------------------------------ constants ----------------------------- *)
\* Clock ticks per microsecond.  SystemTime counts nanoseconds, as_secs_f64
\* keeps about a quarter of a microsecond at today's dates, timestamptz
\* counts whole microseconds: a tick is the part of a microsecond that the
\* epoch still carries when it reaches to_timestamp.
TicksPerMicro == 3
\* max_connections of the master pool and of the pool options of a test.
MasterMaxConnections == 20
TestMaxConnections == 50

Tests == 1..NTests
\* The test processes (test binaries); a test runs on a thread of one of them.
Procs == {"A", "B"}
Operator == 0
Actors == Tests \cup {Operator}

\* Absent values: a string, a time, a database name, an Option (a sequence
\* of at most one element), a panic message.
None == "none"
NoTime == -1
NoName == <<>>
NoOpts == [host |-> "", database |-> "", username |-> ""]

\* Connect options parsed from DATABASE_URL.  Only host and database are
\* compared by the registry; username stands for everything else.
BaseOpts == [host |-> "h1", database |-> "m1", username |-> "u1"]
UrlChoices ==
    { BaseOpts,
      [BaseOpts EXCEPT !.host = "h2"],
      [BaseOpts EXCEPT !.database = "m2"],
      [BaseOpts EXCEPT !.username = "u2"] }

\* '__sqlx_test_' || nextval(...)
DbName(n) == <<"__sqlx_test_", n>>

\* The four entry shapes of TestFn.
Shapes == {"Pool", "PoolConnection", "Connection", "Options"}

\* The outcomes of a test: (), Ok(_), Err(_).
Outcomes == {"unit", "Ok", "Err"}

\* Fixture lists a test may declare: paths in declared order.
FixturePaths == {"a.sql", "b.sql"}
RECURSIVE SeqsUpTo(_, _)
SeqsUpTo(S, n) ==
    IF n = 0 THEN {<<>>}
    ELSE LET shorter == SeqsUpTo(S, n - 1)
         IN  shorter \cup {Append(s, x) : s \in {q \in shorter : Len(q) = n - 1}, x \in S}
FixtureLists == {s \in SeqsUpTo(FixturePaths, MaxFixtures) :
                    \A i, j \in 1..Len(s) : i < j => s[i] # s[j]}

Range(s) == {s[i] : i \in 1..Len(s)}
Perms(S) == {s \in SeqsUpTo(S, Cardinality(S)) :
                Len(s) = Cardinality(S) /\ Range(s) = S}

(* ------------------------------ time ---------------------------------- *)
\* now() of the server: timestamptz holds whole microseconds.
PgNow(clock) == (clock \div TicksPerMicro) * TicksPerMicro

\* to_timestamp(epoch.duration_since(UNIX_EPOCH).as_secs_f64()): the float
\* seconds are turned into microseconds with rint(), i.e. rounded to the
\* nearest microsecond, ties to even.
to_timestamp(e) ==
    LET q == e \div TicksPerMicro
        r == e % TicksPerMicro
        up == \/ 2 * r > TicksPerMicro
              \/ 2 * r = TicksPerMicro /\ q % 2 = 1
    IN  (IF up THEN q + 1 ELSE q) * TicksPerMicro

(* ------------------------------ attribute ----------------------------- *)
\* Literals of the attribute's arguments (syn::Lit).
NoLit == [kind |-> "none", value |-> ""]
StrLit(v) == [kind |-> "Str", value |-> v]
BoolLit(v) == [kind |-> "Bool", value |-> v]
IntLit == [kind |-> "Int", value |-> "1"]

\* The arguments (syn::NestedMeta::Meta): a list `path(nested, ...)` or a
\* name and value `path = lit`.
MetaList(path, nested) == [meta |-> "List", path |-> path, nested |-> nested, lit |-> NoLit]
MetaNameValue(path, lit) == [meta |-> "NameValue", path |-> path, nested |-> <<>>, lit |-> lit]

\* The arguments an attribute is written with: fixtures(...) of string
\* literals or of a literal that is no string, migrations = false | true |
\* "<path>" | 1, and two that are neither (fixtures = "a.sql", migrations()).
StrLits(l) == [i \in 1..Len(l) |-> StrLit(l[i])]
ArgChoices ==
    {MetaList("fixtures", StrLits(l)) : l \in FixtureLists}
        \cup {MetaList("fixtures", <<IntLit>>)}
        \cup {MetaNameValue("migrations", l) :
                l \in {BoolLit("false"), BoolLit("true"), StrLit("db/migrations"), IntLit}}
        \cup {MetaNameValue("fixtures", StrLit("a.sql")), MetaList("migrations", <<>>)}
AttributeArgs == SeqsUpTo(ArgChoices, MaxArgs)

\* enum MigrationsOpt
InferredPath == [opt |-> "InferredPath", path |-> ""]
ExplicitPath(litstr) == [opt |-> "ExplicitPath", path |-> litstr]
Disabled == [opt |-> "Disabled", path |-> ""]

\* The locals of parse_args while it runs, error "" until it returns Err
\* (the messages are written without their backquotes).
ParseStart == [error |-> "", fixtures |-> <<>>, migrations |-> InferredPath]

\* The arm of fixtures(...): the duplicate check, then the nested literals
\* pushed in order until one is no string.
fixtures_arm(st, list) ==
    IF st.fixtures # <<>>
      THEN [st EXCEPT !.error = "duplicate fixtures arg"]
    ELSE IF \E i \in 1..Len(list.nested) : list.nested[i].kind # "Str"
      THEN [st EXCEPT !.error = "expected string literal"]
    ELSE [st EXCEPT !.fixtures = @ \o [i \in 1..Len(list.nested) |-> list.nested[i].value]]

\* The match on the literal with `true` taken for the default.
migrations_lit_true_inferred(st, lit) ==
    IF lit.kind = "Bool"
      THEN [st EXCEPT !.migrations = IF lit.value = "false" THEN Disabled ELSE InferredPath]
    ELSE IF lit.kind = "Str"
      THEN [st EXCEPT !.migrations = ExplicitPath(lit.value)]
    ELSE [st EXCEPT !.error = "expected string or false"]

\* The match on the literal of migrations = <lit>.
migrations_lit(st, lit) ==
    IF lit.kind = "Bool"
      THEN IF lit.value = "false"
             THEN [st EXCEPT !.migrations = Disabled]
             ELSE [st EXCEPT !.error = "migrations = true is redundant"]
    ELSE IF lit.kind = "Str"
      THEN [st EXCEPT !.migrations = ExplicitPath(lit.value)]
    ELSE [st EXCEPT !.error = "expected string or false"]

\* The arm of migrations = <lit>: the duplicate check, then the literal.
migrations_arm(st, namevalue) ==
    IF st.migrations # InferredPath
      THEN [st EXCEPT !.error = "duplicate migrations arg"]
    ELSE migrations_lit(st, namevalue.lit)

\* One turn of the loop of parse_args: the match on the argument.
parse_arg(st, arg) ==
    IF arg.meta = "List" /\ arg.path = "fixtures" THEN fixtures_arm(st, arg)
    ELSE IF arg.meta = "NameValue" /\ arg.path = "migrations" THEN migrations_arm(st, arg)
    ELSE [st EXCEPT !.error = "expected fixtures(...) or migrations = ..."]

\* parse_args: the loop over the arguments from the i-th on, left at the
\* first error.
RECURSIVE parse_from(_, _, _)
parse_from(attr_args, i, st) ==
    IF i > Len(attr_args) \/ st.error # "" THEN st
    ELSE parse_from(attr_args, i + 1, parse_arg(st, attr_args[i]))

parse_args(attr_args) == parse_from(attr_args, 1, ParseStart)

\* Path::new("fixtures").join(fixture.value())
FixturePath(value) == <<"fixtures", value>>

\* The directory of the migrator that expand has the test set, <<>> for none.
MigratorDir(migrations) ==
    IF migrations.opt = "ExplicitPath" THEN <<migrations.path>>
    ELSE IF migrations.opt = "InferredPath" THEN <<"migrations">>
    ELSE <<>>

\* The TestArgs the generated test builds: args.migrator(..) if there is a
\* migrator, args.fixtures(&[..]).
GeneratedArgs(args) ==
    [migrator |-> MigratorDir(args.migrations) # <<>>,
     fixtures |-> [i \in 1..Len(args.fixtures) |-> FixturePath(args.fixtures[i])]]

\* stage: "none", then "attr" (the attribute is met), then "parsed" and
\* "expanded", or "rejected" (a compile error, there is no test).
NoMacro == [stage |-> "none", attr_args |-> <<>>, args |-> ParseStart, error |-> "",
            migrator |-> <<>>, test_args |-> [migrator |-> FALSE, fixtures |-> <<>>]]

(* ------------------------------ state --------------------------------- *)
VARIABLES
    now,          \* the wall clock, in ticks (SystemTime::now and the server's now())
    schema,       \* the tracking table and the sequence exist
    seq,          \* last value of the sequence __sqlx_test_database_ids
    tracking,     \* rows of __sqlx_test_databases
    dbs,          \* names of the ephemeral databases that exist on the server
    MASTER_POOL,  \* per process: the OnceCell, None or the retained pool
    START_TIME,   \* per process: the Lazy, None until first dereferenced
    pc,           \* per actor: where its test (or the operator cleanup) stands
    loc,          \* per test: the locals of run_test / test_context / the closure
    reap,         \* per actor: the locals of do_cleanup
    opRuns,       \* operator cleanups started
    macro         \* the expansion of one #[sqlx::test(...)] attribute

vars == <<now, schema, seq, tracking, dbs, MASTER_POOL, START_TIME, pc, loc, reap, opRuns,
          macro>>

\* result: <<>> while the pass runs, then <<[ok, count]>> (Ok(count) or Err).
NoReap == [epoch |-> NoTime, selected |-> <<>>, rest |-> <<>>, deleted |-> <<>>,
           result |-> <<>>]

\* PoolOptions not yet built.
NoPoolOpts == [max_connections |-> 0, idle_timeout |-> 0, parent |-> <<>>]

NoLoc == [proc |-> None, url |-> NoOpts, master |-> <<>>, db_name |-> NoName,
          pool_opts |-> NoPoolOpts,
          migrator |-> FALSE, fixtures |-> <<>>, shape |-> None,
          pool |-> "none", inner |-> FALSE, migrated |-> FALSE, applied |-> <<>>,
          called |-> FALSE, res |-> None, cleanup |-> None, ret |-> None,
          panic |-> <<>>]

Init ==
    /\ now = 0
    /\ schema = FALSE
    /\ seq = 0
    /\ tracking = {}
    /\ dbs = {}
    /\ MASTER_POOL = [p \in Procs |-> <<>>]
    /\ START_TIME = [p \in Procs |-> NoTime]
    /\ pc = [a \in Actors |-> "idle"]
    /\ loc = [t \in Tests |-> NoLoc]
    /\ reap = [a \in Actors |-> NoReap]
    /\ opRuns = 0
    /\ macro = NoMacro

(* ------------------------------ server -------------------------------- *)
\* A database cannot be dropped while a session is connected to it: the
\* sessions are those of the pool the harness opened on it and those the
\* inner function opened itself.
InUse(d) ==
    \E t \in Tests : loc[t].db_name = d /\ (loc[t].pool = "open" \/ loc[t].inner)

\* The names that have a row in a tracking table.
Names(table) == {r.db_name : r \in table}
Tracked(d) == d \in Names(tracking)

\* The database of a freshly allocated name.
CreateDatabase(d) == dbs \cup {d}

\* TestTermination::is_success for (), Result::Ok, Result::Err.
is_success(res) == res \in {"unit", "Ok"}

(* ------------------------------ registry ------------------------------ *)
\* A cell that takes every value offered.
try_insert_replacing(cell, pool) == <<pool>>

\* OnceCell::try_insert: the value the cell holds afterwards.
try_insert(cell, pool) == IF cell = <<>> THEN <<pool>> ELSE cell

\* The sanity checks without the second assert_eq!.
SanityCheckHostOnly(existing, pool) ==
    IF existing.opts.host # pool.opts.host
        THEN <<"DATABASE_URL changed at runtime, host differs">>
    ELSE <<>>

\* The two assert_eq! of test_context: <<>>, or the message of the first to fail.
SanityCheck(existing, pool) ==
    IF existing.opts.host # pool.opts.host
        THEN <<"DATABASE_URL changed at runtime, host differs">>
    ELSE IF existing.opts.database # pool.opts.database
        THEN <<"DATABASE_URL changed at runtime, database differs">>
    ELSE <<>>

\* The pool test_context builds for the call of t from the options o:
\* PoolOptions::new().max_connections(20).connect_lazy_with(master_opts)
MasterPool(t, o) == [owner |-> t, opts |-> o, max_connections |-> MasterMaxConnections]

\* run_test reads DATABASE_URL (one of Urls), test_context builds a lazy
\* pool from it and offers it to MASTER_POOL.  All processes of the model
\* start with a URL for the one master database; once a process has its
\* pool, the variable may have been changed.  The processes being alike,
\* the one whose test_context runs first is called A.
Start(t, Urls) ==
    /\ pc[t] = "idle"
    /\ \E p \in Procs, o \in Urls :
        LET pool == MasterPool(t, o)
            cell == try_insert(MASTER_POOL[p], pool)
            msg == IF MASTER_POOL[p] = <<>> THEN <<>> ELSE SanityCheck(cell[1], pool)
        IN  /\ MASTER_POOL[p] = <<>> =>
                o.host = BaseOpts.host /\ o.database = BaseOpts.database
            /\ p = "B" => MASTER_POOL["A"] # <<>>
            /\ MASTER_POOL' = [MASTER_POOL EXCEPT ![p] = cell]
            /\ IF msg = <<>>
                 THEN /\ pc' = [pc EXCEPT ![t] = "acquire"]
                      /\ loc' = [loc EXCEPT ![t].proc = p, ![t].url = o,
                                            ![t].master = cell]
                 ELSE /\ pc' = [pc EXCEPT ![t] = "panicked"]
                      /\ loc' = [loc EXCEPT ![t].proc = p, ![t].url = o,
                                            ![t].panic = msg]
    /\ UNCHANGED <<now, schema, seq, tracking, dbs, START_TIME, reap, opRuns, macro>>

\* A cutoff taken anew at every dereference.
force_refreshed(lazy, clock) == clock

\* The dereference of START_TIME (Lazy::new(SystemTime::now)): the first
\* one runs SystemTime::now(), the later ones find its value.
force(lazy, clock) == IF lazy = NoTime THEN clock ELSE lazy

\* Err from test_context: run_test's expect() panics.
ConnectFailed == <<"failed to connect to DATABASE_URL">>

\* master_pool.acquire(), the create-if-absent DDL, and the dereference of
\* START_TIME that is the argument of do_cleanup.  The pool built from the
\* URL is by now the retained one or dropped.
Connect(t) ==
    /\ pc[t] = "acquire"
    /\ \/ /\ schema' = TRUE
          /\ START_TIME' = [START_TIME EXCEPT ![loc[t].proc] = force(@, now)]
          /\ reap' = [reap EXCEPT ![t] =
                 [NoReap EXCEPT !.epoch = START_TIME'[loc[t].proc]]]
          /\ pc' = [pc EXCEPT ![t] = "select"]
          /\ loc' = [loc EXCEPT ![t].url = NoOpts]
       \/ /\ pc' = [pc EXCEPT ![t] = "panicked"]
          /\ loc' = [loc EXCEPT ![t].panic = ConnectFailed]
          /\ UNCHANGED <<schema, START_TIME, reap>>
    /\ UNCHANGED <<now, seq, tracking, dbs, MASTER_POOL, opRuns, macro>>

(* ------------------------------ reaper -------------------------------- *)
\* The select with `<=` for `<`.
CandidatesUpToEpoch(table, epoch) ==
    {r.db_name : r \in {x \in table : x.created_at <= to_timestamp(epoch)}}

\* select db_name from __sqlx_test_databases where created_at < to_timestamp($1)
Candidates(table, epoch) ==
    {r.db_name : r \in {x \in table : x.created_at < to_timestamp(epoch)}}

\* A bulk delete that matches no row.
BulkDeleteNothing(table, names) == table

\* delete from __sqlx_test_databases where db_name = any($1::text[])
BulkDelete(table, names) == {r \in table : r.db_name \notin Range(names)}

\* The match with the database error arm pushing the name too.
OnResultPushAlways(r, db_name, result) ==
    [r EXCEPT !.rest = Tail(@), !.deleted = Append(@, db_name)]

\* One arm of the match on a drop result, for the candidate db_name: the
\* locals of do_cleanup afterwards.  "Ok" pushes the name, a database error
\* is only logged.
OnResult(r, db_name, result) ==
    [r EXCEPT !.rest = Tail(@),
              !.deleted = IF result = "Ok" THEN Append(@, db_name) ELSE @]

\* do_cleanup returns to its caller with the result res and its locals are
\* gone: the operator cleanup is over; test_context goes on with `?`, and
\* its Err makes run_test's expect() panic.
ReapReturn(a, res) ==
    /\ reap' = [reap EXCEPT ![a] = [NoReap EXCEPT !.result = <<res>>]]
    /\ IF a = Operator
         THEN pc' = [pc EXCEPT ![a] = "idle"] /\ UNCHANGED loc
       ELSE IF res.ok
         THEN pc' = [pc EXCEPT ![a] = "insert"] /\ UNCHANGED loc
       ELSE /\ pc' = [pc EXCEPT ![a] = "panicked"]
            /\ loc' = [loc EXCEPT ![a].panic = ConnectFailed]

\* Ok(deleted_db_names.len())
Ok(n) == [ok |-> TRUE, count |-> n]

\* An error that is dropped, the caller being told Ok(0).
ErrSwallowed == [ok |-> TRUE, count |-> 0]

\* return Err(e)
Err == [ok |-> FALSE, count |-> 0]

\* The select of do_cleanup, in whatever order the server returns the rows.
Select(a) ==
    /\ pc[a] = "select"
    /\ \/ /\ schema
          /\ \E order \in Perms(Candidates(tracking, reap[a].epoch)) :
                IF order = <<>>
                  THEN ReapReturn(a, Ok(0))
                  ELSE /\ reap' = [reap EXCEPT ![a].selected = order, ![a].rest = order]
                       /\ pc' = [pc EXCEPT ![a] = "drop"]
                       /\ UNCHANGED loc
       \/ ReapReturn(a, Err)
    /\ UNCHANGED <<now, schema, seq, tracking, dbs, MASTER_POOL, START_TIME, opRuns, macro>>

\* One turn of the loop over the results of the batch of
\* `drop database if exists`: the server runs the next statement and the
\* loop takes its result.  The drop fails with a database error while
\* sessions are connected; any other error ends the pass.
Drop(a) ==
    /\ pc[a] = "drop"
    /\ LET db_name == Head(reap[a].rest)
           result == IF InUse(db_name) THEN "Database" ELSE "Ok"
           r == OnResult(reap[a], db_name, result)
       IN  \/ /\ dbs' = IF result = "Ok" THEN dbs \ {db_name} ELSE dbs
              /\ reap' = [reap EXCEPT ![a] = r]
              /\ pc' = [pc EXCEPT ![a] = IF r.rest = <<>> THEN "delete" ELSE "drop"]
              /\ UNCHANGED loc
           \/ /\ ReapReturn(a, Err)
              /\ UNCHANGED dbs
    /\ UNCHANGED <<now, schema, seq, tracking, MASTER_POOL, START_TIME, opRuns, macro>>

\* The bulk delete that ends do_cleanup, and its return value.
Delete(a) ==
    /\ pc[a] = "delete"
    /\ \/ /\ tracking' = BulkDelete(tracking, reap[a].deleted)
          /\ ReapReturn(a, Ok(Len(reap[a].deleted)))
       \/ /\ ReapReturn(a, Err)
          /\ UNCHANGED tracking
    /\ UNCHANGED <<now, schema, seq, dbs, MASTER_POOL, START_TIME, opRuns, macro>>

\* The cutoff of the provisioning path handed to do_cleanup by the operator
\* cleanup: the epoch of a test process.
cleanup_cutoff_epoch == START_TIME["A"]

\* The cutoff cleanup_test_dbs hands to do_cleanup: SystemTime::now().
cleanup_cutoff == now

\* cleanup_test_dbs: connect, and take the cutoff.
OpStart ==
    /\ pc[Operator] = "idle"
    /\ opRuns < MaxOpRuns
    /\ opRuns' = opRuns + 1
    /\ \/ /\ reap' = [reap EXCEPT ![Operator] = [NoReap EXCEPT !.epoch = cleanup_cutoff]]
          /\ pc' = [pc EXCEPT ![Operator] = "select"]
       \/ /\ reap' = [reap EXCEPT ![Operator] = [NoReap EXCEPT !.result = <<Err>>]]
          /\ UNCHANGED pc
    /\ UNCHANGED <<now, schema, seq, tracking, dbs, MASTER_POOL, START_TIME, loc, macro>>

(* ------------------------------ provisioner --------------------------- *)
\* A sequence read without being advanced (currval for nextval).
currval(s) == IF s = 0 THEN 1 ELSE s

\* nextval('__sqlx_test_database_ids'), from the last value s.
nextval(s) == s + 1

\* insert into __sqlx_test_databases(db_name, test_path)
\*   select '__sqlx_test_' || nextval(...), $1      -- created_at default now()
InsertRow(table, n, test_path, clock) ==
    table \cup {[db_name |-> DbName(n), test_path |-> test_path,
                 created_at |-> PgNow(clock)]}

\* TestContext::pool_opts: max_connections(50), idle_timeout of a second,
\* parent(master_pool.clone()).
TestPoolOptions(master_pool) ==
    [max_connections |-> TestMaxConnections, idle_timeout |-> 1, parent |-> master_pool]

\* The allocation of the name and the TestContext that test_context returns.
Insert(t) ==
    /\ pc[t] = "insert"
    /\ \/ /\ seq' = nextval(seq)
          /\ tracking' = InsertRow(tracking, seq', t, now)
          /\ dbs' = CreateDatabase(DbName(seq'))
          /\ loc' = [loc EXCEPT ![t].db_name = DbName(seq'),
                                ![t].pool_opts = TestPoolOptions(loc[t].master)]
          /\ pc' = [pc EXCEPT ![t] = "provisioned"]
       \/ /\ pc' = [pc EXCEPT ![t] = "panicked"]
          /\ loc' = [loc EXCEPT ![t].panic = ConnectFailed]
          /\ UNCHANGED <<seq, tracking, dbs>>
    /\ reap' = [reap EXCEPT ![t] = NoReap]
    /\ UNCHANGED <<now, schema, MASTER_POOL, START_TIME, opRuns, macro>>

Tick ==
    /\ now < MaxTime
    /\ now' = now + 1
    /\ UNCHANGED <<schema, seq, tracking, dbs, MASTER_POOL, START_TIME, pc, loc, reap, opRuns, macro>>

(* ------------------------------ dispatcher ---------------------------- *)
\* TestArgs of tests that declare no setup, and of all tests.
NoSetup == {[migrator |-> FALSE, fixtures |-> <<>>]}
AnySetup == [migrator : BOOLEAN, fixtures : FixtureLists]

\* The closure of the Pool shape starts: pool_opts.connect_with(connect_opts)
\* opens a connection to the ephemeral database.  The TestArgs, one of
\* Args, are first looked at here, so here the model draws them.
PoolOpen(t, Args) ==
    /\ pc[t] = "provisioned"
    /\ \/ /\ loc[t].db_name \in dbs
          /\ \E args \in Args :
             LET m == args.migrator
                 f == args.fixtures IN
                /\ loc' = [loc EXCEPT ![t].pool = "open", ![t].migrator = m,
                                      ![t].fixtures = f]
                /\ pc' = [pc EXCEPT ![t] = IF m THEN "migrate" ELSE "fixtures"]
       \/ /\ pc' = [pc EXCEPT ![t] = "panicked"]
          /\ loc' = [loc EXCEPT ![t].panic = <<"failed to create pool">>]
    /\ UNCHANGED <<now, schema, seq, tracking, dbs, MASTER_POOL, START_TIME, reap, opRuns, macro>>

\* migrator.run(&pool)
Migrate(t) ==
    /\ pc[t] = "migrate"
    /\ \/ /\ loc' = [loc EXCEPT ![t].migrated = TRUE]
          /\ pc' = [pc EXCEPT ![t] = "fixtures"]
       \/ /\ pc' = [pc EXCEPT ![t] = "panicked"]
          /\ loc' = [loc EXCEPT ![t].panic = <<"failed to apply migrations">>]
    /\ UNCHANGED <<now, schema, seq, tracking, dbs, MASTER_POOL, START_TIME, reap, opRuns, macro>>

\* The loop over args.fixtures run from the last fixture to the first.
NextFixtureReversed(l) == l.fixtures[Len(l.fixtures) - Len(l.applied)]

\* The fixture the loop over args.fixtures executes next: those before it
\* have been applied.
NextFixture(l) == l.fixtures[Len(l.applied) + 1]

\* One turn of the loop over args.fixtures.
Fixture(t) ==
    /\ pc[t] = "fixtures"
    /\ Len(loc[t].applied) < Len(loc[t].fixtures)
    /\ \/ /\ loc' = [loc EXCEPT ![t].applied = Append(@, NextFixture(loc[t]))]
          /\ UNCHANGED pc
       \/ /\ pc' = [pc EXCEPT ![t] = "panicked"]
          /\ loc' = [loc EXCEPT ![t].panic =
                        <<"failed to apply fixture", NextFixture(loc[t])>>]
    /\ UNCHANGED <<now, schema, seq, tracking, dbs, MASTER_POOL, START_TIME, reap, opRuns, macro>>

\* The adapter of the options shape without its pool.close().
adapter_pool_kept(sh, pool) == pool

\* The harness's pool at the call of the inner function of shape sh: the
\* adapter of the options shape has closed it (pool.close().await).
adapter_pool(sh, pool) == IF sh = "Options" THEN "closed" ELSE pool

\* The inner function, of a shape in Sh, is called through the adapters of
\* its shape: the Options shape closes the pool first, the connection
\* shapes acquire a connection from it.
Invoke(t, Sh) ==
    /\ pc[t] = "fixtures"
    /\ Len(loc[t].applied) = Len(loc[t].fixtures)
    /\ \E sh \in Sh :
        \/ /\ loc' = [loc EXCEPT ![t].shape = sh, ![t].called = TRUE,
                                 ![t].pool = adapter_pool(sh, @)]
           /\ pc' = [pc EXCEPT ![t] = "body"]
        \/ /\ sh \in {"PoolConnection", "Connection"}
           /\ pc' = [pc EXCEPT ![t] = "panicked"]
           /\ loc' = [loc EXCEPT ![t].panic = <<"failed to acquire connection">>]
    /\ UNCHANGED <<now, schema, seq, tracking, dbs, MASTER_POOL, START_TIME, reap, opRuns, macro>>

\* The inner function returns its outcome, one of Outs, or panics.  Sessions on the
\* ephemeral database may outlive it: the pool it was handed (or the one it
\* built from the options, if the database was there to connect to) is
\* dropped, not closed, and the server learns of the disconnect later.
Return(t, Outs) ==
    /\ pc[t] = "body"
    /\ \/ \E res \in Outs, alive \in BOOLEAN :
            /\ loc' = [loc EXCEPT
                  ![t].res = res,
                  ![t].shape = None,
                  ![t].inner = loc[t].shape = "Options" /\ alive
                                   /\ loc[t].db_name \in dbs,
                  ![t].pool = IF loc[t].shape # "Options" /\ alive THEN "open" ELSE "closed"]
            /\ pc' = [pc EXCEPT ![t] = "returned"]
       \/ /\ pc' = [pc EXCEPT ![t] = "panicked"]
          /\ loc' = [loc EXCEPT ![t].shape = None,
                                ![t].panic = <<"test body panicked">>]
    /\ UNCHANGED <<now, schema, seq, tracking, dbs, MASTER_POOL, START_TIME, reap, opRuns, macro>>

\* A cleanup whose delete is run whatever became of the drop.
cleanup_test_delete_always(db_name) ==
    [result |-> IF InUse(db_name) THEN "Database" ELSE "Ok",
     dbs |-> IF InUse(db_name) THEN dbs ELSE dbs \ {db_name},
     tracking |-> {r \in tracking : r.db_name # db_name}]

\* cleanup_test: one execute of
\*   drop database if exists <db_name>; delete from ... where db_name = <db_name>
\* The result: the drop fails with a database error while sessions are
\* connected, and then the delete is not run.
cleanup_test(db_name) ==
    IF InUse(db_name)
      THEN [result |-> "Database", dbs |-> dbs, tracking |-> tracking]
      ELSE [result |-> "Ok", dbs |-> dbs \ {db_name},
            tracking |-> {r \in tracking : r.db_name # db_name}]

\* A run_test that hands the error of cleanup_test on.
run_test_output_propagating(res, cleanup) ==
    IF cleanup \in {"Database", "Io"} THEN "Err" ELSE res

\* What run_test returns (Fut::Output) for the outcome res of the test
\* function and the result of cleanup_test (None if it was not called):
\* `if let Err(e) = ... {}` drops the error.
run_test_output(res, cleanup) == res

\* The end of run_test: cleanup_test if the outcome is a success (it may
\* also fail with an I/O error), its error dropped.
Finish(t) ==
    /\ pc[t] = "returned"
    /\ pc' = [pc EXCEPT ![t] = "done"]
    /\ IF is_success(loc[t].res)
         THEN \/ LET c == cleanup_test(loc[t].db_name)
                 IN  /\ dbs' = c.dbs
                     /\ tracking' = c.tracking
                     /\ loc' = [loc EXCEPT ![t].cleanup = c.result,
                                           ![t].ret = run_test_output(loc[t].res, c.result)]
              \/ /\ loc' = [loc EXCEPT ![t].cleanup = "Io",
                                        ![t].ret = run_test_output(loc[t].res, "Io")]
                 /\ UNCHANGED <<dbs, tracking>>
         ELSE /\ loc' = [loc EXCEPT ![t].ret = run_test_output(loc[t].res, None)]
              /\ UNCHANGED <<dbs, tracking>>
    /\ UNCHANGED <<now, schema, seq, MASTER_POOL, START_TIME, reap, opRuns, macro>>

\* After the test the server sees the sessions on its database end.
SessionsEnd(t) ==
    /\ pc[t] \in {"done", "panicked"}
    /\ loc[t].pool = "open" \/ loc[t].inner
    /\ loc' = [loc EXCEPT ![t].pool = IF @ = "open" THEN "closed" ELSE @,
                          ![t].inner = FALSE]
    /\ UNCHANGED <<now, schema, seq, tracking, dbs, MASTER_POOL, START_TIME, pc, reap, opRuns, macro>>

(* ------------------------------ expansion ----------------------------- *)
\* The compiler meets a test function with the attribute #[sqlx::test(...)].
Attribute ==
    /\ macro.stage = "none"
    /\ \E attr_args \in AttributeArgs :
          macro' = [macro EXCEPT !.stage = "attr", !.attr_args = attr_args]
    /\ UNCHANGED <<now, schema, seq, tracking, dbs, MASTER_POOL, START_TIME, pc, loc, reap,
                   opRuns>>

\* expand: let args = parse_args(args)?;
ParseArgs ==
    /\ macro.stage = "attr"
    /\ LET st == parse_args(macro.attr_args)
       IN  macro' = [macro EXCEPT !.stage = IF st.error = "" THEN "parsed" ELSE "rejected",
                                  !.args = st, !.error = st.error]
    /\ UNCHANGED <<now, schema, seq, tracking, dbs, MASTER_POOL, START_TIME, pc, loc, reap,
                   opRuns>>

\* The rest of expand: the fixtures resolved and embedded, the migrator
\* expanded, the test function generated; a fixture file or a migrations
\* directory that cannot be read is an error.
Generate ==
    /\ macro.stage = "parsed"
    /\ \/ macro' = [macro EXCEPT !.stage = "expanded",
                                 !.migrator = MigratorDir(macro.args.migrations),
                                 !.test_args = GeneratedArgs(macro.args)]
       \/ /\ macro.args.fixtures # <<>> \/ macro.args.migrations.opt # "Disabled"
          /\ macro' = [macro EXCEPT !.stage = "rejected", !.error = "cannot read"]
    /\ UNCHANGED <<now, schema, seq, tracking, dbs, MASTER_POOL, START_TIME, pc, loc, reap,
                   opRuns>>

(* ------------------------------ specifications ------------------------ *)
\* The suite: tests without declared setup, in any processes, and the
\* operator cleanup, all against one master database.
Next ==
    \/ \E t \in Tests : Start(t, {BaseOpts})
    \/ \E t \in Tests : Connect(t)
    \/ \E a \in Actors : Select(a)
    \/ \E a \in Actors : Drop(a)
    \/ \E a \in Actors : Delete(a)
    \/ \E t \in Tests : Insert(t)
    \/ \E t \in Tests : PoolOpen(t, NoSetup)
    \/ \E t \in Tests : Invoke(t, {"Pool", "Options"})
    \/ \E t \in Tests : Return(t, {"Ok", "Err"})
    \/ \E t \in Tests : Finish(t)
    \/ \E t \in Tests : SessionsEnd(t)
    \/ OpStart
    \/ Tick

Spec == Init /\ [][Next]_vars

\* One test with any declared setup, run on its own.
NextSetup ==
    \/ Start(1, UrlChoices)
    \/ Connect(1)
    \/ Select(1)
    \/ Insert(1)
    \/ PoolOpen(1, AnySetup)
    \/ Migrate(1)
    \/ Fixture(1)
    \/ Invoke(1, Shapes)
    \/ Return(1, Outcomes)
    \/ Finish(1)
    \/ SessionsEnd(1)

SpecSetup == Init /\ [][NextSetup]_vars

\* Provisioning while DATABASE_URL changes between the calls.
NextRegistry ==
    \/ \E t \in Tests : Start(t, UrlChoices)
    \/ \E t \in Tests : Connect(t)
    \/ \E t \in Tests : Select(t)
    \/ \E t \in Tests : Insert(t)

SpecRegistry == Init /\ [][NextRegistry]_vars

\* Tests that fail, in any processes, and the operator cleanup; a reaper
\* pass that waits for the server gets its answer.
NextReclaim ==
    \/ \E t \in Tests : Start(t, {BaseOpts})
    \/ \E t \in Tests : Connect(t)
    \/ \E a \in Actors : Select(a)
    \/ \E a \in Actors : Drop(a)
    \/ \E a \in Actors : Delete(a)
    \/ \E t \in Tests : Insert(t)
    \/ \E t \in Tests : PoolOpen(t, NoSetup)
    \/ \E t \in Tests : Invoke(t, {"Pool"})
    \/ \E t \in Tests : Return(t, {"Err"})
    \/ \E t \in Tests : Finish(t)
    \/ \E t \in Tests : SessionsEnd(t)
    \/ OpStart
    \/ Tick

SpecReclaim ==
    /\ Init
    /\ [][NextReclaim]_vars
    /\ \A a \in Actors : WF_vars(Select(a)) /\ WF_vars(Drop(a)) /\ WF_vars(Delete(a))

\* One attribute expanded and the test it generates run as far as its body.
NextMacro ==
    \/ Attribute
    \/ ParseArgs
    \/ Generate
    \/ macro.stage = "expanded" /\ Start(1, {BaseOpts})
    \/ Connect(1)
    \/ Select(1)
    \/ Insert(1)
    \/ PoolOpen(1, {macro.test_args})
    \/ Migrate(1)
    \/ Fixture(1)
    \/ Invoke(1, {"Pool"})

SpecMacro == Init /\ [][NextMacro]_vars

(* ------------------------------ claims -------------------------------- *)
\* The actor a takes the step.
Acts(a) == pc'[a] # pc[a] \/ reap'[a] # reap[a]

\* The select of a's pass returns in this step (with rows or with none).
Selects(a) ==
    /\ pc[a] = "select"
    /\ Acts(a)
    /\ pc'[a] = "drop" \/ reap'[a].result = <<Ok(0)>>

Handles(a) ==
    /\ pc[a] = "drop"
    /\ Acts(a)
    /\ pc'[a] \in {"drop", "delete"}

\* The bulk delete of a's pass succeeds in this step and the pass returns.
Completes(a) ==
    /\ pc[a] = "delete"
    /\ Acts(a)
    /\ reap'[a].result # <<>>
    /\ reap'[a].result[1].ok

\* C2 as stated: when a pass completes, the databases of the candidates
\* whose drop succeeded are gone and their rows absent, the candidates whose
\* drop failed with a database error still exist with their row as it was,
\* every other row is unchanged, and the count returned is the number of
\* rows removed.
C2_PassPostcondition ==
    [][\A a \in Actors :
          Completes(a) =>
            LET ok == Range(reap[a].deleted)
                failed == Range(reap[a].selected) \ ok
            IN  /\ \A d \in ok : d \notin dbs' /\ d \notin Names(tracking')
                /\ \A d \in failed : d \in dbs' /\ d \in Names(tracking')
                /\ \A r \in tracking : r.db_name \notin ok => r \in tracking'
                /\ reap'[a].result[1].count = Cardinality(tracking \ tracking')]_vars

\* C2 as amended: a candidate whose drop succeeded is pushed and its
\* database is gone; one whose drop failed with a database error is not
\* pushed and its database is left as it is.  When the pass completes the
\* databases of the pushed names are gone and their rows absent, the bulk
\* delete removes no other row and changes none, and the count returned is
\* the number of successful drops, which is at least the number of rows this
\* pass removed.
C2_PassEffects ==
    [][\A a \in Actors :
          /\ Handles(a) =>
               LET d == Head(reap[a].rest)
               IN  IF reap'[a].deleted # reap[a].deleted
                     THEN d \notin dbs' /\ reap'[a].deleted = Append(reap[a].deleted, d)
                     ELSE d \in dbs /\ dbs' = dbs
          /\ Completes(a) =>
               LET ok == Range(reap[a].deleted)
               IN  /\ \A d \in ok : d \notin dbs' /\ d \notin Names(tracking')
                   /\ tracking' = {r \in tracking : r.db_name \notin ok}
                   /\ dbs' = dbs
                   /\ reap'[a].result[1].count = Len(reap[a].deleted)
                   /\ reap'[a].result[1].count >= Cardinality(tracking \ tracking')]_vars

\* A pass is about to complete after one drop that succeeded and one that
\* failed because the database was in use.
C2_Witness ==
    \E a \in Actors :
        /\ pc[a] = "delete"
        /\ Len(reap[a].selected) = 2
        /\ Len(reap[a].deleted) = 1

\* Sessions are connected to existing databases only.
SessionsOnExisting == \A t \in Tests : InUse(loc[t].db_name) => loc[t].db_name \in dbs

\* C3: no step of a reaper pass drops the database or deletes the row of a
\* test of another process that is provisioned and has not finished.
Live(t) == pc[t] \in {"provisioned", "migrate", "fixtures", "body", "returned"}

C3_ReaperSparesLiveTests ==
    [][\A a \in Actors, t \in Tests :
          (/\ pc[a] \in {"drop", "delete"}
           /\ Acts(a)
           /\ a # t
           /\ Live(t)
           /\ a = Operator \/ loc[a].proc # loc[t].proc)
          => /\ loc[t].db_name \in dbs => loc[t].db_name \in dbs'
             /\ loc[t].db_name \in Names(tracking) => loc[t].db_name \in Names(tracking')]_vars

\* The test t ends in this step: run_test returns or unwinds.
Ended(t) == pc[t] \in {"done", "panicked"}
Ends(t) == ~Ended(t) /\ Ended(t)'

\* C4: cleanup_test is called only for a success outcome; when the body
\* returns a failure outcome or the setup aborts, cleanup_test is not called
\* and the database and its row are there when the test ends.
C4_CleanupOnlyOnSuccess ==
    [][\A t \in Tests :
          Ends(t) =>
            /\ loc'[t].cleanup # None => is_success(loc'[t].res)
            /\ (\/ pc'[t] = "done" /\ ~is_success(loc'[t].res)
                \/ pc'[t] = "panicked" /\ pc[t] \in {"provisioned", "migrate", "fixtures"})
               => /\ loc'[t].cleanup = None
                  /\ loc[t].db_name \in dbs'
                  /\ loc[t].db_name \in Names(tracking')]_vars

\* C5: once run_test has returned a success outcome (and the cleanup
\* statement did not fail in transport), the database of the test does not
\* exist and its row is gone.
C5_SuccessLeavesNothing ==
    \A t \in Tests :
        (pc[t] = "done" /\ is_success(loc[t].res) /\ loc[t].cleanup # "Io")
            => loc[t].db_name \notin dbs /\ loc[t].db_name \notin Names(tracking)

\* C6: a process retains at most one pool, which is never replaced, and
\* every test that has called test_context holds the pool its process
\* retains.
C6_Retained ==
    /\ \A p \in Procs : Len(MASTER_POOL[p]) <= 1
    /\ \A t \in Tests :
          pc[t] # "idle" =>
            /\ MASTER_POOL[loc[t].proc] # <<>>
            /\ loc[t].master = MASTER_POOL[loc[t].proc]
            /\ loc[MASTER_POOL[loc[t].proc][1].owner].proc = loc[t].proc

C6_OnePoolRetained ==
    /\ []C6_Retained
    /\ [][\A p \in Procs : MASTER_POOL[p] # <<>> => MASTER_POOL'[p] = MASTER_POOL[p]]_vars

\* Two tests of one process have called test_context, the second finding
\* the cell full.
C6_Witness ==
    \E t, u \in Tests :
        /\ t # u
        /\ pc[t] # "idle" /\ pc[u] # "idle"
        /\ loc[t].proc = loc[u].proc
        /\ loc[u].master # <<>>
        /\ loc[u].master[1].owner = t

\* C7: a call of test_context that finds a retained pool whose host or
\* database differs from its own panics with the assertion's message, with
\* nothing else changed, and takes no further step; every other call goes on
\* to acquire a connection.
AssertMessages ==
    { <<"DATABASE_URL changed at runtime, host differs">>,
      <<"DATABASE_URL changed at runtime, database differs">> }

C7_MismatchAborts ==
    [][\A t \in Tests :
          /\ (pc[t] = "idle" /\ pc'[t] # "idle") =>
               LET cell == MASTER_POOL[loc'[t].proc]
                   o == loc'[t].url
                   differs == /\ cell # <<>>
                              /\ \/ cell[1].opts.host # o.host
                                 \/ cell[1].opts.database # o.database
               IN  IF differs
                     THEN /\ pc'[t] = "panicked"
                          /\ loc'[t].panic \in AssertMessages
                          /\ loc'[t].master = <<>>
                          /\ MASTER_POOL' = MASTER_POOL
                          /\ UNCHANGED <<schema, seq, tracking, dbs, START_TIME, reap>>
                     ELSE /\ pc'[t] = "acquire"
                          /\ loc'[t].panic = <<>>
                          /\ loc'[t].master = MASTER_POOL'[loc'[t].proc]
          /\ loc[t].panic \in AssertMessages => UNCHANGED <<pc[t], loc[t], reap[t]>>]_vars

\* A call has panicked on the database of the pool another call of its
\* process had retained.
C7_Witness ==
    \E t, u \in Tests :
        /\ t # u
        /\ loc[t].panic = <<"DATABASE_URL changed at runtime, database differs">>
        /\ loc[u].proc = loc[t].proc
        /\ MASTER_POOL[loc[t].proc] = loc[u].master
        /\ loc[u].master[1].owner = u

\* C8: the names returned by test_context are pairwise distinct, and a name
\* test_context allocates is that of no row and no database.
C8_Distinct ==
    \A t, u \in Tests :
        (t # u /\ loc[t].db_name # NoName) => loc[t].db_name # loc[u].db_name

C8_NamesNeverReused ==
    /\ []C8_Distinct
    /\ [][\A t \in Tests :
            (pc[t] = "insert" /\ pc'[t] = "provisioned")
                => loc'[t].db_name \notin (Names(tracking) \cup dbs)]_vars

\* A test holds a name allocated after the row of an earlier name was deleted.
C8_Witness ==
    \E t, u \in Tests :
        /\ loc[t].db_name = DbName(1)
        /\ loc[u].db_name = DbName(2)
        /\ pc[u] = "provisioned"
        /\ Names(tracking) = {DbName(2)}

\* C9: the fixtures applied are at all times the first ones of the declared
\* list, one more with each step; the inner function is called only after
\* all of them; a panic on a fixture names the first one not applied, and
\* then the inner function is never called.
IsPrefix(s, l) == Len(s) <= Len(l) /\ \A i \in 1..Len(s) : s[i] = l[i]

C9_State ==
    \A t \in Tests :
        /\ IsPrefix(loc[t].applied, loc[t].fixtures)
        /\ loc[t].called => loc[t].applied = loc[t].fixtures
        /\ (loc[t].panic # <<>> /\ loc[t].panic[1] = "failed to apply fixture")
              => /\ pc[t] = "panicked"
                 /\ Len(loc[t].applied) < Len(loc[t].fixtures)
                 /\ loc[t].panic[2] = loc[t].fixtures[Len(loc[t].applied) + 1]
                 /\ ~loc[t].called
                 /\ loc[t].res = None

C9_FixturesInOrderFailFast ==
    /\ []C9_State
    /\ [][\A t \in Tests :
            /\ \/ loc'[t].applied = loc[t].applied
               \/ /\ Len(loc[t].applied) < Len(loc[t].fixtures)
                  /\ loc'[t].applied =
                        Append(loc[t].applied, loc[t].fixtures[Len(loc[t].applied) + 1])
            /\ pc[t] = "panicked" => pc'[t] = "panicked" /\ loc'[t].applied = loc[t].applied]_vars

\* The second of two fixtures has failed after the first was applied.
C9_Witness ==
    \E t \in Tests :
        /\ Len(loc[t].fixtures) = 2
        /\ loc[t].applied = <<loc[t].fixtures[1]>>
        /\ loc[t].panic = <<"failed to apply fixture", loc[t].fixtures[2]>>

FixturesArgs == {i \in 1..Len(macro.attr_args) :
                    macro.attr_args[i].meta = "List" /\ macro.attr_args[i].path = "fixtures"}
MigrationsArgs == {i \in 1..Len(macro.attr_args) :
                    macro.attr_args[i].meta = "NameValue"
                        /\ macro.attr_args[i].path = "migrations"}

\* C11: once parse_args has returned for arguments with two fixtures(...)
\* entries or two migrations = ... entries, it has returned an error, no
\* TestArgs is produced and no test runs.
C11_DuplicatesRejected ==
    (/\ macro.stage \notin {"none", "attr"}
     /\ Cardinality(FixturesArgs) >= 2 \/ Cardinality(MigrationsArgs) >= 2)
        => /\ macro.stage = "rejected"
           /\ macro.args.error # ""
           /\ pc[1] = "idle"

\* The literals of the migrations = <lit> arguments of the attribute.
MigrationsLits == {macro.attr_args[i].lit : i \in MigrationsArgs}

\* Every argument is well formed and no key comes twice.
WellFormed ==
    /\ Cardinality(FixturesArgs) <= 1
    /\ Cardinality(MigrationsArgs) <= 1
    /\ \A i \in 1..Len(macro.attr_args) : i \in FixturesArgs \cup MigrationsArgs
    /\ \A i \in FixturesArgs :
          \A k \in 1..Len(macro.attr_args[i].nested) : macro.attr_args[i].nested[k].kind = "Str"
    /\ \A l \in MigrationsLits : l = BoolLit("false") \/ l.kind = "Str"

\* C12: with no migrations key the migrator of the directory `migrations`
\* is set, with migrations = false none, with migrations = "<path>" that of
\* <path>; a migrator that is set is run before the body and without one no
\* migration step is taken; migrations = true is an error and there is no
\* test.
C12_MigrationsResolved ==
    macro.stage \notin {"none", "attr"} =>
        /\ WellFormed => macro.args.error = ""
        /\ BoolLit("true") \in MigrationsLits =>
              macro.stage = "rejected" /\ macro.args.error # "" /\ pc[1] = "idle"
        /\ macro.args.error = "" =>
              /\ MigrationsArgs = {} => macro.args.migrations = InferredPath
              /\ MigrationsLits = {BoolLit("false")} => macro.args.migrations = Disabled
              /\ \A l \in MigrationsLits :
                    l.kind = "Str" => macro.args.migrations = ExplicitPath(l.value)
        /\ macro.stage = "expanded" =>
              /\ macro.args.migrations = InferredPath => macro.migrator = <<"migrations">>
              /\ macro.args.migrations = Disabled => macro.migrator = <<>>
              /\ macro.args.migrations.opt = "ExplicitPath"
                    => macro.migrator = <<macro.args.migrations.path>>
              /\ macro.test_args.migrator = (macro.migrator # <<>>)
        /\ pc[1] # "idle" => macro.stage = "expanded"
        /\ pc[1] = "migrate" => macro.migrator # <<>>
        /\ loc[1].called => (loc[1].migrated <=> macro.migrator # <<>>)

\* The test of an attribute with migrations = "db/migrations" has run that
\* migrator and called its body.
C12_Witness ==
    /\ MigrationsLits = {StrLit("db/migrations")}
    /\ macro.migrator = <<"db/migrations">>
    /\ loc[1].migrated
    /\ loc[1].called

\* A drop result of a's pass is an error that is no database error: the
\* pass leaves the loop in this step.
Aborts(a) ==
    /\ pc[a] = "drop"
    /\ Acts(a)
    /\ pc'[a] \notin {"drop", "delete"}

\* C13 as stated: a pass that meets an error that is no database error
\* returns an error at once, drops nothing more and deletes no row, and the
\* rows of the databases it had dropped are in the table afterwards.
C13_AbortKeepsRows ==
    [][\A a \in Actors :
          Aborts(a) =>
            /\ reap'[a].result # <<>> /\ ~reap'[a].result[1].ok
            /\ dbs' = dbs
            /\ tracking' = tracking
            /\ \A d \in Range(reap[a].deleted) : d \in Names(tracking')]_vars

\* C13 as amended: a pass that meets an error that is no database error
\* returns an error at once, handles no later result, drops nothing more
\* and deletes no row: the table is as it was before the step, the rows of
\* the databases the pass had dropped included unless another actor deleted
\* them meanwhile.
C13_AbortDeletesNothing ==
    [][\A a \in Actors :
          Aborts(a) =>
            /\ reap'[a].result # <<>> /\ ~reap'[a].result[1].ok
            /\ reap'[a].rest = <<>> /\ reap'[a].deleted = <<>>
            /\ pc'[a] = IF a = Operator THEN "idle" ELSE "panicked"
            /\ dbs' = dbs
            /\ tracking' = tracking]_vars

\* The operator cleanup has returned an error; a database is gone and its
\* row is in the table, another candidate was not reached.
C13_Witness ==
    /\ reap[Operator].result # <<>>
    /\ ~reap[Operator].result[1].ok
    /\ \E t, u \in Tests :
          /\ t # u
          /\ loc[t].db_name # NoName /\ loc[u].db_name # NoName
          /\ loc[t].db_name \notin dbs /\ loc[t].db_name \in Names(tracking)
          /\ loc[u].db_name \in dbs /\ loc[u].db_name \in Names(tracking)
          /\ ~InUse(loc[u].db_name)

\* C14: when the inner function of the options shape is called, and for as
\* long as it runs, the pool the harness opened for migrations and fixtures
\* is closed: the harness has no session on the ephemeral database.
C14_ClosedBeforeInner ==
    /\ [](\A t \in Tests :
            (pc[t] = "body" /\ loc[t].shape = "Options")
                => loc[t].pool = "closed" /\ ~InUse(loc[t].db_name))
    /\ [][\A t \in Tests :
            (pc[t] # "body" /\ pc'[t] = "body" /\ loc'[t].shape = "Options")
                => /\ loc[t].pool = "open"
                   /\ loc'[t].pool = "closed"
                   /\ loc'[t].called]_vars

\* The inner function of the options shape runs after a migration and a
\* fixture were applied through the pool.
C14_Witness ==
    \E t \in Tests :
        /\ pc[t] = "body"
        /\ loc[t].shape = "Options"
        /\ loc[t].migrated
        /\ loc[t].applied # <<>>
        /\ loc[t].pool = "closed"

\* C15: the epoch of a process, once captured, never changes, and every
\* reaper pass of a provisioning call of the process has it as its cutoff.
C15_EpochFixed ==
    /\ [](\A t \in Tests :
            pc[t] \in {"select", "drop", "delete"}
                => /\ START_TIME[loc[t].proc] # NoTime
                   /\ reap[t].epoch = START_TIME[loc[t].proc])
    /\ [][\A p \in Procs :
            START_TIME[p] # NoTime => START_TIME'[p] = START_TIME[p]]_vars

\* Two provisioning calls of one process: one has its database, the other
\* is in its pass with the epoch of the process, which is not the time now.
C15_Witness ==
    \E t, u \in Tests :
        /\ t # u
        /\ loc[t].proc = loc[u].proc
        /\ loc[t].db_name # NoName
        /\ pc[u] = "select"
        /\ reap[u].epoch = START_TIME[loc[u].proc]
        /\ reap[u].epoch < now

\* C16: the pool options test_context returns have a max_connections
\* smaller than that of the master pool, which is their parent.
C16_TestPoolSmaller ==
    \A t \in Tests :
        loc[t].db_name # NoName =>
            /\ loc[t].pool_opts.parent = MASTER_POOL[loc[t].proc]
            /\ loc[t].pool_opts.parent # <<>>
            /\ loc[t].pool_opts.max_connections < loc[t].pool_opts.parent[1].max_connections

Failed(t) ==
    /\ loc[t].db_name # NoName
    /\ \/ pc[t] = "done" /\ ~is_success(loc[t].res)
       \/ pc[t] = "panicked"

\* The rows of the database of t.
RowsOf(t) == {r \in tracking : r.db_name = loc[t].db_name}

Pending(a, t) ==
    /\ a # t
    /\ Failed(t)
    /\ pc[a] = "drop"
    /\ loc[t].db_name \in Range(reap[a].rest)
    /\ ~InUse(loc[t].db_name)

C20_NeverSelectsOwn ==
    [][\A a, t \in Tests :
          (/\ Selects(a)
           /\ loc[t].proc = loc[a].proc
           /\ loc[t].db_name # NoName)
          => loc[t].db_name \notin Range(reap'[a].selected)]_vars

====
